---- MODULE Spec2Model ----
(***************************************************************************)
(* Mandelbrot viewer: the render pipeline (MandelbrotViewer + the worker)  *)
(* and the gradient-stop editor.                                           *)
(*                                                                         *)
(* Time is in milliseconds.  Request parameters are generation stamps: a   *)
(* field holds the number of the state change that last wrote it, so two   *)
(* snapshots are equal only when they are the same snapshot.               *)
(***************************************************************************)
EXTENDS Integers, Sequences, FiniteSets, TLC

\* ------------------------------------------------------------------ bounds
MaxChanges == 4
MaxTicks == 5

\* -------------------------------------------------------- program constants
WAIT == 100
MAX_WAIT == 400

\* Date.now() at mount: far enough from 0 that lastInvokeTime = 0 is "long ago".
Epoch == MAX_WAIT
\* The sampled gap between events: the longest one still shorter than WAIT.
Step == WAIT - 1

None == <<>>
Some(x) == <<x>>

Min(a, b) == IF a <= b THEN a ELSE b
Max(a, b) == IF a >= b THEN a ELSE b

VARIABLES
  \* --- main thread (MandelbrotViewer)
  viewer,          \* "created" | "mounted" | "unmounted"; "none": the worker alone
  state,           \* the React state that feeds a render request
  nChanges,        \* number of state changes so far
  now,             \* Date.now()
  db,              \* closure state of the debounced postRender
  transferred,     \* canvasRef's element is a placeholder (control transferred)
  \* --- worker
  workerAlive,     \* the Worker exists and has not been terminated
  inbox,           \* messages posted to the worker, not yet handled
  offscreenCanvas, \* worker.ts module variable: a canvas has been stored
  active,          \* requests whose render() has begun and not returned
  surface,         \* the bitmap of the canvas
  \* --- history
  lastChangeAt,    \* time of the latest call of postRender
  nPosted,         \* number of render messages handed to worker.postMessage
  lastPosted,      \* the latest of them (None before the first)
  lastApplied,     \* the request of the latest frame put on the surface
  burstStart,      \* time of the first change not yet posted (None if none)
  burstPosts,      \* render messages posted since the current burst began
  \* --- gradient editor
  width,           \* prop width: the width of the bar in pixels
  value,           \* the stop list (prop value)
  draggingStop,
  editingStop,
  inputValue,
  nextId,          \* number of the next stop to be added
  nOps,            \* number of handler calls so far
  \* --- a call of interpolateGradientStops
  gradient,        \* argument stops
  tArg,            \* argument t, in units of 1/Scale
  resolved,        \* what the call gave (None before it)
  \* --- the viewer and the worker on sampled values, frames as pixels
  view,            \* the React state that feeds a render request, as values
  contextMode,     \* "none" until getContext("2d") has given a context
  imageData,       \* the ImageData of the latest render (None before it)
  outcome,         \* what onmessage did with the latest message
  previous,        \* the size of the frame the latest render replaced (None if none)
  pending,         \* the render-updates effect has called postRender since the last post
  \* --- the escape-time kernel on one pixel, pass by pass
  kernel,          \* real, imag, zr, zi, iter of render and the position in its code
  \* --- a call of interpolateHue
  hueCall          \* the arguments h1, h2, t and the result (None before the return)

pipeVars == <<viewer, state, nChanges, now, db, transferred, workerAlive, inbox,
              offscreenCanvas, active, surface, lastChangeAt, nPosted,
              lastPosted, lastApplied, burstStart, burstPosts>>
geVars == <<width, value, draggingStop, editingStop, inputValue, nextId, nOps>>
gsVars == <<gradient, tArg, resolved>>
rVars == <<view, contextMode, imageData, outcome, previous, pending>>
\* What the steps on sampled values leave alone in the pipeline.
pipeRest == <<viewer, state, nChanges, now, db, transferred, workerAlive, active,
              lastChangeAt, nPosted, lastPosted, burstStart, burstPosts>>
kVars == <<kernel>>
hVars == <<hueCall>>
vars == <<pipeVars, geVars, gsVars, rVars, kVars, hVars>>

\* ------------------------------------------------------------ the messages
Fields == {"dimensions", "center", "zoom", "startColor", "endColor", "powerFactor"}

InitialState == [f \in Fields |-> 0]

\* The object literal of the render-updates effect.
RenderRequest(s) ==
  [canvas |-> FALSE,
   width |-> s.dimensions, height |-> s.dimensions,
   center |-> s.center, zoom |-> s.zoom,
   startColor |-> s.startColor, endColor |-> s.endColor,
   powerFactor |-> s.powerFactor]

\* { canvas: offscreen } of the init-worker effect.
CanvasMessage == [RenderRequest(InitialState) EXCEPT !.canvas = TRUE]

\* ------------------------------------------------- debounce(func, 100, {maxWait: 400})
leading == FALSE
trailing == TRUE
maxing == TRUE

FreshDebounce ==
  [timerId |-> None, lastArgs |-> None, lastCallTime |-> None, lastInvokeTime |-> 0]

\* Results of the debounce functions: the new closure state and the arguments
\* func was applied to (at most one application per call).
Ret(d, out) == [db |-> d, out |-> out]

invokeFunc(d, time) ==
  Ret([d EXCEPT !.lastArgs = None, !.lastInvokeTime = time], d.lastArgs)

LeadingEdgeInvoking(d, time) ==
  invokeFunc([d EXCEPT !.lastInvokeTime = time, !.timerId = Some(time + WAIT)], time)

leadingEdge(d, time) ==
  LET d1 == [d EXCEPT !.lastInvokeTime = time, !.timerId = Some(time + WAIT)]
  IN  IF leading THEN invokeFunc(d1, time) ELSE Ret(d1, None)

remainingWait(d, time) ==
  LET timeSinceLastCall == time - d.lastCallTime[1]
      timeSinceLastInvoke == time - d.lastInvokeTime
      result == WAIT - timeSinceLastCall
  IN  IF maxing THEN Min(result, MAX_WAIT - timeSinceLastInvoke) ELSE result

shouldInvoke(d, time) ==
  \/ d.lastCallTime = None
  \/ time - d.lastCallTime[1] >= WAIT
  \/ time - d.lastCallTime[1] < 0
  \/ maxing /\ time - d.lastInvokeTime >= MAX_WAIT

trailingEdge(d, time) ==
  LET d1 == [d EXCEPT !.timerId = None]
  IN  IF trailing /\ d1.lastArgs # None
        THEN invokeFunc(d1, time)
        ELSE Ret([d1 EXCEPT !.lastArgs = None], None)

timerExpired(d, time) ==
  IF shouldInvoke(d, time)
    THEN trailingEdge(d, time)
    ELSE Ret([d EXCEPT !.timerId = Some(time + remainingWait(d, time))], None)

cancel(d) == FreshDebounce

debounced(d, time, args) ==
  LET isInvoking == shouldInvoke(d, time)
      d1 == [d EXCEPT !.lastArgs = Some(args), !.lastCallTime = Some(time)]
  IN  IF isInvoking /\ d1.timerId = None THEN leadingEdge(d1, time)
      ELSE IF isInvoking /\ maxing
        THEN invokeFunc([d1 EXCEPT !.timerId = Some(time + WAIT)], time)
      ELSE IF d1.timerId = None
        THEN Ret([d1 EXCEPT !.timerId = Some(time + WAIT)], None)
      ELSE Ret(d1, None)

\* ---------------------------------------------------------------- the surface
\* A bitmap: its size and either no pixels drawn (transparent black) or the
\* complete frame computed from one request.
Blank(w, h) == [width |-> w, height |-> h, pixels |-> None]
Frame(m) == [width |-> m.width, height |-> m.height, pixels |-> Some(m)]

\* React writes the canvas element's width/height attributes.  On an ordinary
\* canvas that resets the bitmap; on a placeholder (after
\* transferControlToOffscreen) the bitmap belongs to the OffscreenCanvas and
\* the attribute write does not reach it.
CanvasAttrWriteAlways(surf, isPlaceholder, s) == Blank(s.dimensions, s.dimensions)

CanvasAttrWrite(surf, isPlaceholder, s) ==
  IF isPlaceholder THEN surf ELSE Blank(s.dimensions, s.dimensions)

\* ------------------------------------------------------------------- worker
\* worker.postMessage(msg): queued for a live worker, discarded otherwise.
PostMessage(q, alive, out) == IF alive THEN q \o out ELSE q

\* The worker's event loop takes the next message only when the previous
\* onmessage call has returned.
WorkerAlwaysReady(a) == TRUE

WorkerIdle(a) == a = {}

\* Which queued message the event loop hands to onmessage: the oldest.
NewestMessage(q) == Len(q)

NextMessage(q) == 1

RemoveAt(q, i) == SubSeq(q, 1, i - 1) \o SubSeq(q, i + 1, Len(q))

\* ----------------------------------------------------------------- handlers
\* Effect cleanup of the render-updates effect.
CleanupKeepsTimer(d) == d

CleanupRenderUpdates(d) == cancel(d)

\* The state setters a handler calls.  The one-field setters (setZoom,
\* setStartColor, setEndColor, setPowerFactor, commitCenterX/Y) have the shape of
\* handleMouseMove, the favourite-spot selector that of handleWheel.
Handlers ==
  [handleMouseMove |-> {"center"},
   handleWheel |-> {"center", "zoom"},
   onResize |-> {"dimensions"}]

\* History kept when func was applied to the arguments in `out`.
Posted(out) ==
  /\ nPosted' = nPosted + Len(out)
  /\ lastPosted' = IF out = None THEN lastPosted ELSE Some(out[Len(out)])

\* History kept when postRender(req) runs at time `now` and returns r.  A burst
\* is a run of calls each less than WAIT after the one before.
Submit(req, r) ==
  /\ lastChangeAt' = Some(now)
  /\ Posted(r.out)
  /\ burstStart' = IF r.db.lastArgs = None THEN None
                   ELSE IF burstStart = None THEN Some(now) ELSE burstStart
  /\ burstPosts' = Len(r.out) +
       (IF lastChangeAt = None \/ now - lastChangeAt[1] >= WAIT THEN 0 ELSE burstPosts)

\* First render of the component and its effects, in source order.
Mount ==
  /\ viewer = "created"
  /\ LET req == RenderRequest(state)
         r == debounced(db, now, req)
     IN  /\ surface' = CanvasAttrWrite(surface, transferred, state)
         /\ transferred' = TRUE
         /\ workerAlive' = TRUE
         /\ inbox' = PostMessage(<<CanvasMessage>>, TRUE, r.out)
         /\ db' = r.db
         /\ Submit(req, r)
  /\ viewer' = "mounted"
  /\ UNCHANGED <<state, nChanges, now, offscreenCanvas, active, lastApplied,
                 geVars, kVars, hVars, gsVars, rVars>>

\* A handler sets state; React re-renders, runs the render-updates effect's
\* cleanup and then the effect with the new state.
StateChange(h) ==
  /\ viewer = "mounted"
  /\ nChanges < MaxChanges
  /\ LET s == [f \in Fields |-> IF f \in Handlers[h] THEN nChanges + 1 ELSE state[f]]
         req == RenderRequest(s)
         r == debounced(CleanupRenderUpdates(db), now, req)
     IN  /\ state' = s
         /\ surface' = IF "dimensions" \in Handlers[h]
                         THEN CanvasAttrWrite(surface, transferred, s)
                         ELSE surface
         /\ db' = r.db
         /\ inbox' = PostMessage(inbox, workerAlive, r.out)
         /\ Submit(req, r)
  /\ nChanges' = nChanges + 1
  /\ UNCHANGED <<viewer, now, transferred, workerAlive, offscreenCanvas, active,
                 lastApplied, geVars, kVars, hVars, gsVars, rVars>>

\* The debounce timer's callback.
TimerExpired ==
  /\ db.timerId # None
  /\ now >= db.timerId[1]
  /\ LET r == timerExpired(db, now)
     IN  /\ db' = r.db
         /\ inbox' = PostMessage(inbox, workerAlive, r.out)
         /\ Posted(r.out)
         /\ burstStart' = IF r.db.lastArgs = None THEN None ELSE burstStart
         /\ burstPosts' = burstPosts + Len(r.out)
  /\ UNCHANGED <<viewer, state, nChanges, now, transferred, workerAlive,
                 offscreenCanvas, active, surface, lastChangeAt, lastApplied,
                 geVars, kVars, hVars, gsVars, rVars>>

\* Unmount: the effects' cleanups, in source order.  worker.terminate() stops
\* the worker at once: queued messages are discarded and a running script is
\* aborted.
Unmount ==
  /\ viewer = "mounted"
  /\ viewer' = "unmounted"
  /\ workerAlive' = FALSE
  /\ inbox' = <<>>
  /\ active' = {}
  /\ db' = CleanupRenderUpdates(db)
  /\ burstStart' = IF CleanupRenderUpdates(db).lastArgs = None THEN None ELSE burstStart
  /\ UNCHANGED <<state, nChanges, now, transferred, offscreenCanvas, surface,
                 lastChangeAt, nPosted, lastPosted, lastApplied, burstPosts,
                 geVars, kVars, hVars, gsVars, rVars>>

\* Time passes: up to Step, but not beyond the deadline of the pending timer (a
\* due timer runs before the clock moves on).  The clock stops at the horizon
\* and once neither a timer nor a further state change can follow.
Tick ==
  /\ viewer # "created"
  /\ now < Epoch + MaxTicks * Step
  /\ db.timerId # None \/ (viewer = "mounted" /\ nChanges < MaxChanges)
  /\ db.timerId # None => db.timerId[1] > now
  /\ now' = IF db.timerId # None THEN Min(now + Step, db.timerId[1]) ELSE now + Step
  /\ UNCHANGED <<viewer, state, nChanges, db, transferred, workerAlive, inbox,
                 offscreenCanvas, active, surface, lastChangeAt, nPosted, lastPosted,
                 lastApplied, burstStart, burstPosts, geVars, kVars, hVars, gsVars, rVars>>

\* render is called for every message without a canvas.
OnMessageWithoutCanvasTest ==
  /\ workerAlive
  /\ inbox # <<>>
  /\ WorkerIdle(active)
  /\ LET i == NextMessage(inbox)
         e == inbox[i]
     IN  /\ inbox' = RemoveAt(inbox, i)
         /\ IF e.canvas
              THEN /\ offscreenCanvas' = TRUE
                   /\ UNCHANGED <<active, surface>>
              ELSE /\ active' = active \cup {e}
                   /\ surface' = Blank(e.width, e.height)
                   /\ UNCHANGED offscreenCanvas
  /\ UNCHANGED <<viewer, state, nChanges, now, db, transferred, workerAlive,
                 lastChangeAt, nPosted, lastPosted, lastApplied, burstStart,
                 burstPosts, geVars, kVars, hVars, gsVars, rVars>>

\* self.onmessage, up to the point where render() has obtained the context and
\* sized the canvas (worker.ts 160-168).
OnMessage ==
  /\ workerAlive
  /\ inbox # <<>>
  /\ WorkerIdle(active)
  /\ LET i == NextMessage(inbox)
         e == inbox[i]
     IN  /\ inbox' = RemoveAt(inbox, i)
         /\ IF e.canvas
              THEN /\ offscreenCanvas' = TRUE
                   /\ UNCHANGED <<active, surface>>
              ELSE IF offscreenCanvas
                THEN /\ active' = active \cup {e}
                     /\ surface' = Blank(e.width, e.height)
                     /\ UNCHANGED offscreenCanvas
                ELSE UNCHANGED <<offscreenCanvas, active, surface>>
  /\ UNCHANGED <<viewer, state, nChanges, now, db, transferred, workerAlive,
                 lastChangeAt, nPosted, lastPosted, lastApplied, burstStart,
                 burstPosts, geVars, kVars, hVars, gsVars, rVars>>

\* The rest of render(): the pixel loop fills imageData, putImageData writes it
\* to the canvas in one call, and onmessage returns (worker.ts 169-212).
RenderPut(m) ==
  /\ workerAlive
  /\ m \in active
  /\ surface' = Frame(m)
  /\ active' = active \ {m}
  /\ lastApplied' = Some(m)
  /\ UNCHANGED <<viewer, state, nChanges, now, db, transferred, workerAlive, inbox,
                 offscreenCanvas, lastChangeAt, nPosted, lastPosted, burstStart,
                 burstPosts, geVars, kVars, hVars, gsVars, rVars>>

\* ------------------------------------------------------- pipeline properties
\* The number of the state change a request was built after.
Gen(m) ==
  Max(m.width, Max(m.center, Max(m.zoom,
    Max(m.startColor, Max(m.endColor, m.powerFactor)))))

RenderMessages(q) == {i \in DOMAIN q : ~q[i].canvas}

\* No call of postRender for WAIT: either more than WAIT has passed, or exactly
\* WAIT and the timer callback has already run.
Quiet ==
  /\ lastChangeAt # None
  /\ \/ now - lastChangeAt[1] > WAIT
     \/ now - lastChangeAt[1] >= WAIT /\ db.timerId = None

\* C1: a burst of N >= 1 parameter changes, each less than WAIT after the one
\* before and followed by WAIT without a change, posts exactly one render
\* message to the worker, and that message is the request built from the
\* state after the Nth change, every field of it.
C1_BurstPostsLastOnce ==
  /\ burstPosts <= 1
  /\ (viewer = "mounted" /\ Quiet) =>
       /\ burstPosts = 1
       /\ lastPosted = Some(RenderRequest(state))

\* A burst of three calls (mount and two changes) has been posted as one
\* message whose fields were last written by different changes.
C1_Witness ==
  /\ viewer = "mounted"
  /\ Quiet
  /\ nChanges = 2
  /\ nPosted = 1
  /\ lastPosted = Some(RenderRequest(state))
  /\ state.center = 1
  /\ state.dimensions = 2

\* C2: while a request is pending, it is posted no later than MAX_WAIT after
\* the first change not yet posted, however fast the changes keep arriving.
C2_MaxWaitBoundsLatency ==
  burstStart # None => now - burstStart[1] <= MAX_WAIT

\* C3: at most one render pass executes at any moment.
C3_OneRenderAtATime == Cardinality(active) <= 1

\* A render is executing while another request has already been delivered.
C3_Witness ==
  /\ active # {}
  /\ RenderMessages(inbox) # {}

\* C4: at most one posted request waits behind the render in progress.
C4_NoBacklog ==
  active # {} => Cardinality(RenderMessages(inbox)) <= 1

\* The frames follow the order of submission.
FramesInOrder ==
  [][(lastApplied' # lastApplied /\ lastApplied # None) =>
       Gen(lastApplied'[1]) > Gen(lastApplied[1])]_vars

\* Nothing is pending, queued or executing.
Settled ==
  /\ viewer = "mounted"
  /\ db.timerId = None
  /\ db.lastArgs = None
  /\ inbox = <<>>
  /\ active = {}

C6_SurfaceNeverBlank ==
  lastApplied # None => surface.pixels # None

\* C7: once the canvas has been transferred, the surface changes only in a
\* step of the single executing render; no step of the main thread changes it.
C7_WorkerIsOnlyWriter ==
  [][(transferred /\ surface' # surface) =>
       /\ Cardinality(active \cup active') = 1
       /\ UNCHANGED <<viewer, state, nChanges, db, transferred>>]_vars

\* The viewer has resized its canvas element while the surface still holds
\* the frame rendered for the previous size.
C7_Witness ==
  /\ transferred
  /\ surface.pixels # None
  /\ state.dimensions # surface.width

\* C8: after teardown the worker is released, no debounce timer and no pending
\* request remain, and no render message is posted any more.
C8_TeardownCancels ==
  /\ [](viewer = "unmounted" =>
          /\ ~workerAlive
          /\ db.timerId = None
          /\ db.lastArgs = None)
  /\ [][viewer = "unmounted" => nPosted' = nPosted]_vars

\* Teardown happened less than WAIT after the last change, whose request was
\* still pending and has never been posted.
C8_Witness ==
  /\ viewer = "unmounted"
  /\ lastPosted # Some(RenderRequest(state))
  /\ nChanges >= 1
  /\ now - lastChangeAt[1] < WAIT

\* C9: a render that has begun runs to completion: a request leaves the
\* executing set only by having its frame put on the surface.
C9_RenderRunsToCompletion ==
  [][\A m \in active : m \in active' \/ surface' = Frame(m)]_vars

\* Every render message still queued has the canvas message before it, or
\* the worker already holds the canvas.
SurfaceFirst ==
  \A i \in RenderMessages(inbox) :
    offscreenCanvas \/ \E j \in 1..(i - 1) : inbox[j].canvas

\* C27: the viewer posts the canvas before any render message; the worker
\* renders only once it holds the canvas; a render message handled without a
\* canvas changes neither the worker's state nor the surface; a message with
\* a canvas is stored and starts no render.
C27_RendersOnlyWithSurface ==
  /\ [](viewer # "none" => SurfaceFirst)
  /\ []((active # {} \/ lastApplied # None) => offscreenCanvas)
  /\ [][(workerAlive' /\ inbox # <<>> /\ inbox' = Tail(inbox)) =>
         IF Head(inbox).canvas
           THEN offscreenCanvas' /\ UNCHANGED <<active, surface, lastApplied>>
           ELSE ~offscreenCanvas =>
                  UNCHANGED <<offscreenCanvas, active, surface, lastApplied>>]_vars

\* The worker alone has handled its messages, render messages only: it
\* holds no canvas, has rendered nothing and the surface is as it was.
C27_Witness ==
  /\ viewer = "none"
  /\ inbox = <<>>
  /\ ~offscreenCanvas
  /\ active = {}
  /\ lastApplied = None
  /\ surface = Blank(0, 0)

\* -------------------------------------------------------------- gradient editor
\* Positions are in units of 1/Scale: a mouse x is a whole pixel of the
\* `width`-pixel bar, a typed position a whole percent, minDistance is 0.005.
\* Colours are grey levels 0..255 (#000000 .. #FFFFFF); for greys hexToHsv
\* gives s = 0 and interpolateHsv the rounded linear blend of the levels.
MaxOps == 7

\* The prop `width`: its default and a bar as wide as a large display.
DefaultWidth == 300
WideWidth == 4000
Widths == {DefaultWidth, WideWidth}

\* Positions are whole multiples of 1/Scale.
Scale == 3 * WideWidth
minDistance == (5 * Scale) \div 1000
\* Half the width of a stop's handle (.stop-controls, w-4 -ml-2), in pixels.
HandleHalf == 8

\* e.clientX - rect.left: the ends of the bar, a point p, the first pixel right
\* of a handle centred at p, and the first pixel right of a handle centred
\* one pixel further.
MousePx(w) ==
  {0, w \div 2, w \div 2 + HandleHalf, w \div 2 + 2 * HandleHalf + 1, w}
Typed == {0, 50, 101}
Greys == {128}
\* `stop-${Date.now()}`: the n-th added stop gets the n-th timestamp.
NewStopId(n) == "stop-" \o ToString(n)

PxToPos(px) == (px * Scale) \div width
PctToPos(num) == (num * Scale) \div 100
\* Math.round(position * 100)
PosToPct(pos) == (2 * 100 * pos + Scale) \div (2 * Scale)

DefaultStops ==
  << [id |-> "start", color |-> 255, position |-> 0],
     [id |-> "end", color |-> 0, position |-> Scale] >>

\* stops.findIndex(stop => stop.id === stopId), 0 for -1
FindIndex(stops, stopId) ==
  IF \E i \in DOMAIN stops : stops[i].id = stopId
    THEN CHOOSE i \in DOMAIN stops :
           /\ stops[i].id = stopId
           /\ \A j \in DOMAIN stops : stops[j].id = stopId => i <= j
    ELSE 0

constrainPosition(position, stopId, stops) ==
  LET stopIndex == FindIndex(stops, stopId)
      minPos == IF stopIndex > 1 THEN stops[stopIndex - 1].position + minDistance ELSE 0
      maxPos == IF stopIndex < Len(stops)
                  THEN stops[stopIndex + 1].position - minDistance ELSE Scale
  IN  IF stopIndex = 0 THEN position ELSE Max(minPos, Min(maxPos, position))

\* The effect that restores the two default stops (lines 29-36) runs after
\* every change of `value`.
OnChange(stops) == IF Len(stops) < 2 THEN DefaultStops ELSE stops

\* The effect that refreshes the position field (lines 39-46).
SyncInput(editing, stops, input) ==
  IF editing # None /\ FindIndex(stops, editing[1]) # 0
    THEN Some(PosToPct(stops[FindIndex(stops, editing[1])].position))
    ELSE input

\* A mouse event at pixel px lands on the handle of some stop.
OnStopControls(px, stops) ==
  \E i \in DOMAIN stops :
    /\ width * stops[i].position - HandleHalf * Scale <= px * Scale
    /\ px * Scale < width * stops[i].position + HandleHalf * Scale

\* Math.round(c1 + (c2 - c1) * t) with t = tn / td, 0 < tn < td
BlendGrey(c1, c2, tn, td) == (2 * (c1 * td + (c2 - c1) * tn) + td) \div (2 * td)

Ids(stops) == {stops[i].id : i \in DOMAIN stops}

\* One more handler call.
Op == nOps < MaxOps /\ nOps' = nOps + 1

handleMouseDown(stopId) ==
  /\ Op
  /\ stopId \in Ids(value)
  /\ stopId # "start" /\ stopId # "end"
  /\ draggingStop' = Some(stopId)
  /\ UNCHANGED <<value, editingStop, inputValue, nextId, width,
                 pipeVars, kVars, hVars, gsVars, rVars>>

handleStopClick(stopId) ==
  /\ Op
  /\ stopId \in Ids(value)
  /\ editingStop' = Some(stopId)
  /\ inputValue' = SyncInput(Some(stopId), value, inputValue)
  /\ UNCHANGED <<value, draggingStop, nextId, width, pipeVars, kVars, hVars, gsVars, rVars>>

handleMouseMove(px) ==
  /\ Op
  /\ draggingStop # None
  /\ LET stopIndex == FindIndex(value, draggingStop[1])
         constrainedX == constrainPosition(PxToPos(px), draggingStop[1], value)
     IN  /\ stopIndex # 0
         /\ value' = OnChange([value EXCEPT ![stopIndex].position = constrainedX])
  /\ inputValue' = SyncInput(editingStop, value', inputValue)
  /\ UNCHANGED <<draggingStop, editingStop, nextId, width, pipeVars, kVars, hVars, gsVars, rVars>>

handleMouseUp ==
  /\ Op
  /\ draggingStop # None
  /\ draggingStop' = None
  /\ UNCHANGED <<value, editingStop, inputValue, nextId, width,
                 pipeVars, kVars, hVars, gsVars, rVars>>

\* The index the loop of handleAddStop finds, 0 when no gap contains x.
InsertIndex(stops, x) ==
  IF \E i \in 1..(Len(stops) - 1) : x > stops[i].position /\ x < stops[i + 1].position
    THEN 1 + CHOOSE i \in 1..(Len(stops) - 1) :
           /\ x > stops[i].position /\ x < stops[i + 1].position
           /\ \A j \in 1..(i - 1) :
                ~(x > stops[j].position /\ x < stops[j + 1].position)
    ELSE 0

\* With no gap found insertIndex stays 0 and prevStop is undefined: reading
\* prevStop.position throws and the handler changes nothing.
handleAddStop(px) ==
  /\ Op
  /\ ~OnStopControls(px, value)
  /\ LET x == PxToPos(px)
         k == InsertIndex(value, x)
     IN  /\ k # 0
         /\ LET prevStop == value[k - 1]
                nextStop == value[k]
                newStop == [id |-> NewStopId(nextId),
                            color |-> BlendGrey(prevStop.color, nextStop.color,
                                                x - prevStop.position,
                                                nextStop.position - prevStop.position),
                            position |-> constrainPosition(x, "new", value)]
            IN  value' = OnChange(SubSeq(value, 1, k - 1) \o <<newStop>>
                                    \o SubSeq(value, k, Len(value)))
  /\ nextId' = nextId + 1
  /\ inputValue' = SyncInput(editingStop, value', inputValue)
  /\ UNCHANGED <<draggingStop, editingStop, width, pipeVars, kVars, hVars, gsVars, rVars>>

Filter(stops, stopId) ==
  LET keep == {i \in DOMAIN stops : stops[i].id # stopId}
      F[n \in 0..Len(stops)] ==
        IF n = 0 THEN <<>>
        ELSE IF n \in keep THEN Append(F[n - 1], stops[n]) ELSE F[n - 1]
  IN  F[Len(stops)]

\* The remove button of the open popup.
handleRemoveStop(stopId) ==
  /\ Op
  /\ editingStop = Some(stopId)
  /\ stopId \in Ids(value)
  /\ stopId # "start" /\ stopId # "end"
  /\ value' = OnChange(Filter(value, stopId))
  /\ inputValue' = SyncInput(editingStop, value', inputValue)
  /\ UNCHANGED <<draggingStop, editingStop, nextId, width, pipeVars, kVars, hVars, gsVars, rVars>>

\* The colour input of the open popup.
handleColorChange(stopId, color) ==
  /\ Op
  /\ editingStop = Some(stopId)
  /\ stopId \in Ids(value)
  /\ value' = OnChange([i \in DOMAIN value |->
                 IF value[i].id = stopId THEN [value[i] EXCEPT !.color = color]
                 ELSE value[i]])
  /\ value' # value
  /\ inputValue' = SyncInput(editingStop, value', inputValue)
  /\ UNCHANGED <<draggingStop, editingStop, nextId, width, pipeVars, kVars, hVars, gsVars, rVars>>

\* Typing in the position field: digits only; None is the empty string.
handlePositionInputChange(newValue) ==
  /\ Op
  /\ editingStop # None
  /\ editingStop[1] \in Ids(value)
  /\ inputValue' = newValue
  /\ inputValue' # inputValue
  /\ UNCHANGED <<value, draggingStop, editingStop, nextId, width,
                 pipeVars, kVars, hVars, gsVars, rVars>>

\* Blur or Enter in the position field.
handlePositionInputComplete(stopId) ==
  /\ Op
  /\ editingStop = Some(stopId)
  /\ stopId \in Ids(value)
  /\ IF inputValue = None \/ inputValue[1] < 0 \/ inputValue[1] > 100
       THEN /\ inputValue' = Some(PosToPct(value[FindIndex(value, stopId)].position))
            /\ UNCHANGED value
       ELSE LET position == constrainPosition(PctToPos(inputValue[1]), stopId, value)
                stopIndex == FindIndex(value, stopId)
            IN  /\ value' = OnChange([value EXCEPT ![stopIndex].position = position])
                /\ inputValue' = Some(PosToPct(position))
  /\ UNCHANGED <<draggingStop, editingStop, nextId, width, pipeVars, kVars, hVars, gsVars, rVars>>

\* Escape in the position field, or blur of the colour input.
closePopup ==
  /\ Op
  /\ editingStop # None
  /\ editingStop' = None
  /\ inputValue' = IF FindIndex(value, editingStop[1]) # 0
                     THEN Some(PosToPct(value[FindIndex(value, editingStop[1])].position))
                     ELSE inputValue
  /\ UNCHANGED <<value, draggingStop, nextId, width, pipeVars, kVars, hVars, gsVars, rVars>>

InitGE ==
  /\ width \in Widths
  /\ value = DefaultStops
  /\ draggingStop = None
  /\ editingStop = None
  /\ inputValue = None
  /\ nextId = 1
  /\ nOps = 0

NextGE ==
  \/ \E id \in Ids(value) : handleMouseDown(id)
  \/ \E id \in Ids(value) : handleStopClick(id)
  \/ \E px \in MousePx(width) : handleMouseMove(px)
  \/ handleMouseUp
  \/ \E px \in MousePx(width) : handleAddStop(px)
  \/ \E id \in Ids(value) : handleRemoveStop(id)
  \/ \E id \in Ids(value), c \in Greys : handleColorChange(id, c)
  \/ \E t \in {None} \cup {Some(n) : n \in Typed} : handlePositionInputChange(t)
  \/ \E id \in Ids(value) : handlePositionInputComplete(id)
  \/ closePopup

\* ---------------------------------------------------- gradient editor properties
Stop(stopId) == value[FindIndex(value, stopId)]

\* C10: after any sequence of editor operations the list still holds the stop
\* "start" at position 0 and the stop "end" at position 1.
C10_BoundaryStopsFixed ==
  /\ "start" \in Ids(value) /\ Stop("start").position = 0
  /\ "end" \in Ids(value) /\ Stop("end").position = Scale

\* C11: after any sequence of editor operations the stop positions are
\* non-decreasing by list index.
C11_PositionsSorted ==
  \A i \in 1..(Len(value) - 1) : value[i].position <= value[i + 1].position

\* Neither end of the list is a boundary stop.
Interior(stop) == stop.id # "start" /\ stop.id # "end"

\* C12: after any sequence of editor operations no two non-boundary stops are
\* closer than minDistance, a stop just added by a click included.
C12_MinimumSeparation ==
  \A i, j \in DOMAIN value :
    (i < j /\ Interior(value[i]) /\ Interior(value[j])) =>
      value[j].position - value[i].position >= minDistance

\* ------------------------------------------------------------ gradient engine
\* colors.ts.  A number of the code that is a ratio of two model integers is
\* kept as that ratio; a zero denominator is the code's NaN or +-Infinity.
MaxStops == 3

Frac(n, d) == [num |-> n, den |-> d]

\* The channels of a grey: r = g = b = level, so max = min, diff = 0, h = 0,
\* s = 0 and v = level / 255 (kept as the level).
hexToHsv(hex) == [h |-> 0, s |-> 0, v |-> hex]

\* The achromatic branch: Math.round(v * 255), r = g = b.
hsvToRgb(h, s, v) == (2 * v.num + v.den) \div (2 * v.den)

\* With t NaN or +-Infinity, h, s and v are NaN: s === 0 is false, no case of
\* the switch on NaN matches and r = g = b = 0.  Otherwise s = 0 for two greys.
interpolateHsv(hsv1, hsv2, t) ==
  IF t.den = 0 THEN 0
  ELSE hsvToRgb(0, 0, Frac(hsv1.v * t.den + (hsv2.v - hsv1.v) * t.num, t.den))

RECURSIVE GCD(_, _)
GCD(a, b) == IF b = 0 THEN a ELSE GCD(b, a % b)

\* The number t as a multiple n / d of the position unit 1/Scale, with the
\* factor common to its denominator and Scale cancelled.
InUnits(t) ==
  LET g == GCD(Scale, t.den)
  IN  Frac(t.num * (Scale \div g), t.den \div g)

\* The index the loop of interpolateGradientStops stops at, 0 when it runs out.
BracketIndex(stops, t) ==
  LET Brackets(i) == /\ t.num >= stops[i].position * t.den
                     /\ t.num <= stops[i + 1].position * t.den
  IN  IF \E i \in 1..(Len(stops) - 1) : Brackets(i)
        THEN CHOOSE i \in 1..(Len(stops) - 1) :
               Brackets(i) /\ \A j \in 1..(i - 1) : ~Brackets(j)
        ELSE 0

\* The colour of the nearer stop, no blend.
LocalTNearest(t, startStop, endStop) ==
  IF 2 * (t.num - startStop.position * t.den)
       < (endStop.position - startStop.position) * t.den
    THEN Frac(0, 1) ELSE Frac(1, 1)

localT(t, startStop, endStop) ==
  Frac(t.num - startStop.position * t.den,
       (endStop.position - startStop.position) * t.den)

\* What a call gives: a colour, or the TypeError of reading a property of
\* undefined.
Returned(rgb) == [threw |-> FALSE, color |-> Some(rgb)]
TypeError == [threw |-> TRUE, color |-> None]

\* With no stops, stops[0] is undefined, the loop does not run and
\* startStop.position throws.
interpolateGradientStops(stops, t) ==
  IF Len(stops) = 0 THEN TypeError
  ELSE LET u == InUnits(t)
           i == BracketIndex(stops, u)
           startStop == IF i # 0 THEN stops[i] ELSE stops[1]
           endStop == IF i # 0 THEN stops[i + 1] ELSE stops[Len(stops)]
       IN  Returned(interpolateHsv(hexToHsv(startStop.color), hexToHsv(endStop.color),
                                   localT(u, startStop, endStop)))

\* The arguments of the sampled calls: lists of up to MaxStops stops in
\* non-decreasing order of position, and t in [0, 1].
Positions == {0, Scale \div 2, Scale}
Colors == {0, 128, 255}
Ts == {0, Scale \div 4, Scale \div 2, Scale}

Sorted(stops) ==
  \A i \in 1..(Len(stops) - 1) : stops[i].position <= stops[i + 1].position

StopLists ==
  {stops \in UNION {[1..n -> [id : {"stop"}, color : Colors, position : Positions]] :
                     n \in 0..MaxStops} : Sorted(stops)}

CallInterpolateGradientStops ==
  /\ resolved = None
  /\ resolved' = Some(interpolateGradientStops(gradient, Frac(tArg, Scale)))
  /\ UNCHANGED <<gradient, tArg, pipeVars, geVars, kVars, hVars, rVars>>

\* The caller drops the result and calls again with another t.
NextCall ==
  /\ resolved # None
  /\ resolved' = None
  /\ \E t \in Ts : tArg' = t
  /\ UNCHANGED <<gradient, pipeVars, geVars, kVars, hVars, rVars>>

InitGS ==
  /\ gradient = DefaultStops
  /\ tArg = 0
  /\ resolved = None

InitCall ==
  /\ gradient \in StopLists
  /\ tArg \in Ts
  /\ resolved = None

NextGS ==
  \/ CallInterpolateGradientStops
  \/ NextCall

\* ------------------------------------------------- gradient engine properties
\* Sorted, first stop at 0, last stop at 1.
Valid(stops) ==
  /\ Len(stops) >= 2
  /\ Sorted(stops)
  /\ stops[1].position = 0
  /\ stops[Len(stops)].position = Scale

\* C13: for every valid stop list, t = 0 resolves to the colour of the first
\* stop and t = 1 to the colour of the last stop.
C13_EndpointsResolve ==
  (resolved # None /\ Valid(gradient)) =>
    /\ tArg = 0 => resolved[1] = Returned(gradient[1].color)
    /\ tArg = Scale => resolved[1] = Returned(gradient[Len(gradient)].color)

\* C14: a call with no stop or a single stop does not throw and returns the
\* colour of the first/last stop.
C14_DegenerateListResolves ==
  (resolved # None /\ Len(gradient) <= 1) =>
    /\ ~resolved[1].threw
    /\ Len(gradient) = 1 => resolved[1] = Returned(gradient[1].color)

\* Exactly two stops, at 0 and at 1.
TwoStops(stops) == Len(stops) = 2 /\ Valid(stops)

\* C15: with exactly two stops at 0 and 1 the call gives, for every t in
\* [0, 1], what interpolateHsv gives for the two colours and t; white to
\* black at t = 0.5 is the grey (128, 128, 128).
C15_TwoStopsReduceToInterpolateHsv ==
  (resolved # None /\ TwoStops(gradient)) =>
    /\ resolved[1] = Returned(interpolateHsv(hexToHsv(gradient[1].color),
                                             hexToHsv(gradient[2].color),
                                             Frac(tArg, Scale)))
    /\ (gradient[1].color = 255 /\ gradient[2].color = 0 /\ 2 * tArg = Scale) =>
         resolved[1] = Returned(128)

\* White to black has been resolved at t = 0.5.
C15_Witness ==
  /\ resolved # None
  /\ TwoStops(gradient)
  /\ gradient[1].color = 255 /\ gradient[2].color = 0
  /\ 2 * tArg = Scale
  /\ resolved[1] = Returned(128)

\* startStop and endStop after the loop of interpolateGradientStops.
SelectedPair(stops, t) ==
  LET i == BracketIndex(stops, InUnits(t))
  IN  IF i # 0 THEN <<stops[i], stops[i + 1]>> ELSE <<stops[1], stops[Len(stops)]>>

\* C24: when the two stops the call interpolates between are at the same
\* position, the call gives the colour of the first of them (localT = 0).
C24_ZeroWidthPairGuarded ==
  (resolved # None /\ Len(gradient) >= 1) =>
    LET pair == SelectedPair(gradient, Frac(tArg, Scale))
    IN  pair[1].position = pair[2].position =>
          resolved[1] = Returned(pair[1].color)

\* ------------------------------------------------------------- interpolateHue
\* Hues are whole degrees, t is k / HueSteps, and the result is kept as a ratio
\* over the denominator of t.
HueSteps == 4

\* a % b of JavaScript for b > 0: the remainder has the sign of a.
Rem(a, b) == IF a >= 0 THEN a % b ELSE 0 - ((0 - a) % b)

\* ((h % 360) + 360) % 360
InRange(h) == Rem(Rem(h, 360) + 360, 360)

\* ((x % 360) + 360) % 360 for the ratio x.
InRangeFrac(x) ==
  Frac(Rem(Rem(x.num, 360 * x.den) + 360 * x.den, 360 * x.den), x.den)

\* From h1 to h2 without the choice of the shorter way.
interpolateHueDirect(h1, h2, t) ==
  InRangeFrac(Frac(InRange(h1) * t.den + (InRange(h2) - InRange(h1)) * t.num, t.den))

interpolateHue(h1, h2, t) ==
  LET n1 == InRange(h1)
      n2 == InRange(h2)
      diff == n2 - n1
      abs == IF diff >= 0 THEN diff ELSE 0 - diff
      a1 == IF abs > 180 /\ diff > 0 THEN n1 + 360 ELSE n1
      a2 == IF abs > 180 /\ ~(diff > 0) THEN n2 + 360 ELSE n2
  IN  InRangeFrac(Frac(a1 * t.den + (a2 - a1) * t.num, t.den))

\* The arguments of the sampled calls.
Hues == {0 - 90, 0, 10, 170, 180, 190, 350, 360, 730}
HueTs == {Frac(k, HueSteps) : k \in 0..HueSteps}

CallInterpolateHue ==
  /\ hueCall.result = None
  /\ hueCall' = [hueCall EXCEPT
                   !.result = Some(interpolateHue(hueCall.h1, hueCall.h2, hueCall.t))]
  /\ UNCHANGED <<pipeVars, geVars, gsVars, rVars, kVars>>

\* The caller drops the result and calls again with another t.
NextHueCall ==
  /\ hueCall.result # None
  /\ \E t \in HueTs : hueCall' = [hueCall EXCEPT !.t = t, !.result = None]
  /\ UNCHANGED <<pipeVars, geVars, gsVars, rVars, kVars>>

InitHue ==
  \E h1 \in Hues, h2 \in Hues, t \in HueTs :
    hueCall = [h1 |-> h1, h2 |-> h2, t |-> t, result |-> None]

NextHue ==
  \/ CallInterpolateHue
  \/ NextHueCall

\* ------------------------------------------------------ interpolateHue properties
\* The length of the shorter arc between two hues, both in units of 1 / den
\* degree.
ArcLength(a, b, den) ==
  LET d == (a - b) % (360 * den)
  IN  Min(d, 360 * den - d)

\* How far from h1 the result of a call is, along the shorter arc.
Travelled(h1, h2, t) ==
  ArcLength(InRange(h1) * t.den, interpolateHue(h1, h2, t).num, t.den)

\* C25: the result of interpolateHue is in [0, 360), it lies on the shorter
\* arc between h1 and h2, it is h1 at t = 0 and h2 at t = 1, and it never
\* moves back towards h1 as t grows.
C25_HueOnShorterArc ==
  hueCall.result # None =>
    LET h1 == hueCall.h1
        h2 == hueCall.h2
        t == hueCall.t
        r == hueCall.result[1]
    IN  /\ r.den = t.den
        /\ 0 <= r.num /\ r.num < 360 * r.den
        /\ ArcLength(InRange(h1) * t.den, r.num, t.den)
             + ArcLength(r.num, InRange(h2) * t.den, t.den)
             = ArcLength(InRange(h1) * t.den, InRange(h2) * t.den, t.den)
        /\ t.num = 0 => r.num = InRange(h1) * r.den
        /\ t.num = t.den => r.num = InRange(h2) * r.den
        /\ \A u \in HueTs :
             u.num <= t.num => Travelled(h1, h2, u) <= Travelled(h1, h2, t)

\* A call strictly between 350 and 10 degrees gave a hue on the arc through 0.
C25_Witness ==
  /\ hueCall.result # None
  /\ hueCall.h1 = 350 /\ hueCall.h2 = 10
  /\ 0 < hueCall.t.num /\ hueCall.t.num < hueCall.t.den
  /\ \/ hueCall.result[1].num > 350 * hueCall.t.den
     \/ hueCall.result[1].num < 10 * hueCall.t.den

\* ------------------------------------------------- the render pass on values
\* The viewer's numbers are ratios: n / 1 is finite, 1 / 0 is Infinity, 0 / 0 is
\* NaN.  The sampled viewports put every pixel on a point of the complex plane
\* with integer coordinates, where the orbit is computed exactly.
MaxInbox == 1

MAX_ITERATIONS == 800

NaN == Frac(0, 0)
Infinity == Frac(1, 0)
isNaN(v) == v = NaN
IsFinite(v) == v.den # 0

\* parseFloat on the sampled texts.
parseFloat(text) ==
  CASE text = "0" -> Frac(0, 1)
    [] text = "2" -> Frac(2, 1)
    [] text = "-1" -> Frac(-1, 1)
    [] text = "Infinity" -> Infinity
    [] OTHER -> NaN

ZoomTexts == {"0", "-1", "abc", "Infinity"}
CenterXTexts == {"abc", "Infinity"}
CenterYTexts == {"2", "abc"}
PowerFactors == {2}
EndColors == {128}
\* What getDimensions gives once the window has shrunk.
Dimensions == {[width |-> 2, height |-> 2]}

InitialView ==
  [dimensions |-> [width |-> 4, height |-> 4],
   center |-> [x |-> Frac(0, 1), y |-> Frac(0, 1)],
   zoom |-> Frac(5, 8),
   startColor |-> 255, endColor |-> 0,
   powerFactor |-> 1]

\* The object literal of the render-updates effect.
RenderMessage(v) ==
  [canvas |-> FALSE,
   width |-> v.dimensions.width, height |-> v.dimensions.height,
   center |-> v.center, zoom |-> v.zoom,
   startColor |-> v.startColor, endColor |-> v.endColor,
   powerFactor |-> v.powerFactor]

\* { canvas: offscreen }
OffscreenMessage == [RenderMessage(InitialView) EXCEPT !.canvas = TRUE]

\* q * (q + (cr - 1/4)) < ci * ci / 4 with q = (cr - 1/4)^2 + ci^2, times 256.
inMainCardioid(cr, ci) ==
  LET q16 == (4 * cr - 1) * (4 * cr - 1) + 16 * ci * ci
  IN  q16 * (q16 + 16 * cr - 4) < 64 * ci * ci

\* (cr + 1)^2 + ci^2 < 1/16, times 16.
inPeriod2Bulb(cr, ci) == 16 * ((cr + 1) * (cr + 1) + ci * ci) < 1

\* The test without the cap on the count.
LoopTestUncapped(s) == s.zr * s.zr + s.zi * s.zi < 4

\* The test of the while loop of render.
LoopTest(s) == s.zr * s.zr + s.zi * s.zi < 4 /\ s.iter < MAX_ITERATIONS

\* One test of the loop and, if it passes, one pass of its body.
LoopStep(s) ==
  IF LoopTest(s)
    THEN [s EXCEPT !.zr = s.zr * s.zr - s.zi * s.zi + s.real,
                   !.zi = 2 * s.zr * s.zi + s.imag,
                   !.iter = s.iter + 1]
    ELSE s

\* f twice; the loop is over once its test has failed.
Twice(f(_), s) == LET a == f(s) IN IF LoopTest(a) THEN f(a) ELSE a

\* 2, 4, ... 1024 tests: once a test fails the state stays, and no loop passes
\* its test more than MAX_ITERATIONS times.
Steps2(s) == Twice(LoopStep, s)
Steps4(s) == Twice(Steps2, s)
Steps8(s) == Twice(Steps4, s)
Steps16(s) == Twice(Steps8, s)
Steps32(s) == Twice(Steps16, s)
Steps64(s) == Twice(Steps32, s)
Steps128(s) == Twice(Steps64, s)
Steps256(s) == Twice(Steps128, s)
Steps512(s) == Twice(Steps256, s)
Steps1024(s) == Twice(Steps512, s)

EscapeLoop(real, imag) ==
  Steps1024([zr |-> 0, zi |-> 0, iter |-> 0, real |-> real, imag |-> imag]).iter

IterationCount(real, imag) ==
  IF inMainCardioid(real, imag) \/ inPeriod2Bulb(real, imag)
    THEN MAX_ITERATIONS
    ELSE EscapeLoop(real, imag)

\* ((p - size / 2) * (2.5 / zoom)) / width
Offset(p, size, w, zoom) == ((2 * p - size) * 5 * zoom.den) \div (4 * zoom.num * w)

Real(m, x) == m.center.x.num + Offset(x, m.width, m.width, m.zoom)
Imag(m, y) == m.center.y.num + Offset(y, m.height, m.width, m.zoom)

\* `iter` of the pixel (x, y).  With an infinite coordinate both tests are
\* false (their left sides are Infinity or NaN), the first pass of the loop
\* makes zr or zi infinite or NaN and the loop ends with iter = 1.
Iter(m, x, y) ==
  IF IsFinite(m.center.x) /\ IsFinite(m.center.y)
    THEN IterationCount(Real(m, x), Imag(m, y))
    ELSE 1

RECURSIVE IntPow(_, _)
IntPow(b, e) == IF e = 0 THEN 1 ELSE b * IntPow(b, e - 1)

\* Math.pow(iter / MAX_ITERATIONS, powerFactor)
Pow(iter, powerFactor) ==
  Frac(IntPow(iter, powerFactor), IntPow(MAX_ITERATIONS, powerFactor))

Opaque(grey) == <<grey, grey, grey, 255>>
Transparent == <<0, 0, 0, 0>>

\* Every count goes through the gradient, MAX_ITERATIONS too.
RenderPixelBlendsAll(m, x, y) ==
  LET iter == Iter(m, x, y)
  IN  Opaque(interpolateHsv(hexToHsv(m.startColor), hexToHsv(m.endColor),
                            Pow(iter, m.powerFactor)))

\* The four bytes render writes for the pixel (x, y).
RenderPixel(m, x, y) ==
  LET iter == Iter(m, x, y)
  IN  IF iter < MAX_ITERATIONS
        THEN Opaque(interpolateHsv(hexToHsv(m.startColor), hexToHsv(m.endColor),
                                   Pow(iter, m.powerFactor)))
        ELSE <<0, 0, 0, 255>>

\* A buffer of w * h transparent black pixels, row by row.
ZeroData(w, h) == [width |-> w, height |-> h, data |-> [i \in 0..(w * h - 1) |-> Transparent]]

\* One buffer kept across renders.
ReusedImageData(last, w, h) == IF last # None THEN last[1] ELSE ZeroData(w, h)

\* ctx.createImageData(width, height); `last` is the buffer of the render before.
createImageData(last, w, h) == ZeroData(w, h)

\* The pixel loop: data[4 * (y * width + x)] for every pixel of the request.  A
\* write past the end of the buffer is ignored.
FillPixels(img, m) ==
  [img EXCEPT !.data =
     [i \in DOMAIN img.data |->
        IF i < m.width * m.height
          THEN RenderPixel(m, i % m.width, i \div m.width)
          ELSE img.data[i]]]

\* ctx.putImageData(imageData, 0, 0) on a canvas just sized w x h.
putImageData(w, h, img) ==
  [width |-> w, height |-> h,
   pixels |-> Some([j \in 0..(w * h - 1) |->
                 IF (j % w) < img.width /\ (j \div w) < img.height
                   THEN img.data[(j \div w) * img.width + (j % w)]
                   ELSE Transparent])]

\* canvas.getContext("2d"): the context once there is one; before that, a new
\* context or null.
GetContext(mode) == IF mode = "2d" THEN {TRUE} ELSE {TRUE, FALSE}

Outcome(kind) == [kind |-> kind, reported |-> FALSE]

\* self.onmessage, render included.
onmessage ==
  /\ inbox # <<>>
  /\ inbox' = Tail(inbox)
  /\ LET m == Head(inbox)
     IN  IF m.canvas
           THEN /\ offscreenCanvas' = TRUE
                /\ outcome' = Outcome("stored")
                /\ UNCHANGED <<surface, lastApplied, contextMode, imageData, previous>>
         ELSE IF ~offscreenCanvas
           THEN /\ outcome' = Outcome("dropped")
                /\ UNCHANGED <<offscreenCanvas, surface, lastApplied, contextMode,
                               imageData, previous>>
         ELSE \E ctx \in GetContext(contextMode) :
                IF ~ctx
                  THEN /\ outcome' = Outcome("dropped")
                       /\ UNCHANGED <<offscreenCanvas, surface, lastApplied, contextMode,
                                      imageData, previous>>
                  ELSE LET img == FillPixels(createImageData(imageData, m.width, m.height), m)
                       IN  /\ contextMode' = "2d"
                           /\ imageData' = Some(img)
                           /\ surface' = putImageData(m.width, m.height, imageData'[1])
                           /\ lastApplied' = Some(m)
                           /\ previous' = IF lastApplied = None THEN None
                                          ELSE Some(<<surface.width, surface.height>>)
                           /\ outcome' = Outcome("rendered")
                           /\ UNCHANGED offscreenCanvas
  /\ UNCHANGED <<view, pending, pipeRest, geVars, kVars, hVars, gsVars>>

\* The trailing edge of the debounced postRender: the effect has called it
\* since the last post, and the message of the latest state goes to the worker.
postRender ==
  /\ Cardinality(RenderMessages(inbox)) < MaxInbox
  /\ pending
  /\ pending' = FALSE
  /\ inbox' = Append(inbox, RenderMessage(view))
  /\ lastPosted' = Some(RenderMessage(view))
  /\ UNCHANGED <<viewer, state, nChanges, now, db, transferred, workerAlive, active,
                 lastChangeAt, nPosted, burstStart, burstPosts, offscreenCanvas,
                 surface, lastApplied, geVars, kVars, hVars, gsVars,
                 view, contextMode, imageData, outcome, previous>>

\* What a handler of the viewer leaves alone.
viewRest == <<pipeVars, geVars, kVars, hVars, gsVars, contextMode, imageData, outcome, previous>>

\* The render-updates effect runs after a render in which one of its
\* dependencies is another value (Object.is): a number or a string that
\* differs, or an object that has just been created.
EffectRuns(newObject) == pending' = (pending \/ newObject \/ view' # view)

commitZoom(zoomText) ==
  /\ LET v == parseFloat(zoomText)
     IN  view' = IF ~isNaN(v) /\ v.num > 0 THEN [view EXCEPT !.zoom = v] ELSE view
  /\ EffectRuns(FALSE)
  /\ UNCHANGED viewRest

\* setCenter((c) => ({ ...c, x: parsed })): a new object.
commitCenterX(centerInputX) ==
  /\ LET parsed == parseFloat(centerInputX)
     IN  /\ view' = IF ~isNaN(parsed) THEN [view EXCEPT !.center.x = parsed] ELSE view
         /\ EffectRuns(~isNaN(parsed))
  /\ UNCHANGED viewRest

commitCenterY(centerInputY) ==
  /\ LET parsed == parseFloat(centerInputY)
     IN  /\ view' = IF ~isNaN(parsed) THEN [view EXCEPT !.center.y = parsed] ELSE view
         /\ EffectRuns(~isNaN(parsed))
  /\ UNCHANGED viewRest

setPowerFactor(p) ==
  /\ view' = [view EXCEPT !.powerFactor = p]
  /\ EffectRuns(FALSE)
  /\ UNCHANGED viewRest

setEndColor(c) ==
  /\ view' = [view EXCEPT !.endColor = c]
  /\ EffectRuns(FALSE)
  /\ UNCHANGED viewRest

\* setDimensions(getDimensions()): the object getDimensions has just made.
\* The transferred canvas element gets new attributes; its bitmap is the
\* worker's.
onResize(d) ==
  /\ view' = [view EXCEPT !.dimensions = d]
  /\ EffectRuns(TRUE)
  /\ UNCHANGED viewRest

InitRender ==
  /\ view = InitialView
  /\ contextMode = "none"
  /\ imageData = None
  /\ outcome = Outcome("none")
  /\ previous = None
  /\ pending = (viewer = "mounted")

\* The viewer has mounted: the canvas is transferred and on its way to the worker.
InitMounted ==
  /\ viewer = "mounted"
  /\ state = InitialState
  /\ nChanges = 0
  /\ now = Epoch
  /\ db = FreshDebounce
  /\ transferred = TRUE
  /\ workerAlive = TRUE
  /\ inbox = <<OffscreenMessage>>
  /\ offscreenCanvas = FALSE
  /\ active = {}
  /\ surface = Blank(InitialView.dimensions.width, InitialView.dimensions.height)
  /\ lastChangeAt = None
  /\ nPosted = 0
  /\ lastPosted = None
  /\ lastApplied = None
  /\ burstStart = None
  /\ burstPosts = 0

NextRender ==
  \/ \E text \in ZoomTexts : commitZoom(text)
  \/ \E text \in CenterXTexts : commitCenterX(text)
  \/ \E text \in CenterYTexts : commitCenterY(text)
  \/ \E p \in PowerFactors : setPowerFactor(p)
  \/ \E c \in EndColors : setEndColor(c)
  \/ \E d \in Dimensions : onResize(d)
  \/ postRender
  \/ onmessage

\* ------------------------------------------- the kernel on one pixel, pass by pass
\* The lines of render between "map pixel -> complex plane" and the colouring,
\* for one pixel whose point has integer coordinates: the two interior tests,
\* then the while loop one pass at a time.  `passes` counts the passes of the
\* loop body.
PointMax == 2
KernelPoints == ((0 - PointMax)..PointMax) \X ((0 - PointMax)..PointMax)

\* Before the tests: iter, zr and zi are not yet assigned.
AtTests(real, imag) ==
  [real |-> real, imag |-> imag, zr |-> 0, zi |-> 0, iter |-> 0, passes |-> 0,
   pc |-> "tests"]

\* No pixel is being computed.
KernelIdle == [AtTests(0, 0) EXCEPT !.pc = "idle"]

\* The loop is entered whatever the tests say.
InteriorTestsSkipped ==
  /\ kernel.pc = "tests"
  /\ kernel' = [kernel EXCEPT !.zr = 0, !.zi = 0, !.iter = 0, !.pc = "loop"]
  /\ UNCHANGED <<pipeVars, geVars, gsVars, rVars, hVars>>

\* if (inMainCardioid(real, imag) || inPeriod2Bulb(real, imag)) iter = MAX_ITERATIONS
\* else { zr = 0, zi = 0; iter = 0; ... }
InteriorTests ==
  /\ kernel.pc = "tests"
  /\ kernel' = IF inMainCardioid(kernel.real, kernel.imag)
                  \/ inPeriod2Bulb(kernel.real, kernel.imag)
                 THEN [kernel EXCEPT !.iter = MAX_ITERATIONS, !.pc = "done"]
                 ELSE [kernel EXCEPT !.zr = 0, !.zi = 0, !.iter = 0, !.pc = "loop"]
  /\ UNCHANGED <<pipeVars, geVars, gsVars, rVars, hVars>>

\* The loop test passes: one pass of the body.
LoopPass ==
  /\ kernel.pc = "loop"
  /\ LoopTest(kernel)
  /\ kernel' = [LoopStep(kernel) EXCEPT !.passes = @ + 1]
  /\ UNCHANGED <<pipeVars, geVars, gsVars, rVars, hVars>>

\* The loop test fails: the loop is over.
LoopExit ==
  /\ kernel.pc = "loop"
  /\ ~LoopTest(kernel)
  /\ kernel' = [kernel EXCEPT !.pc = "done"]
  /\ UNCHANGED <<pipeVars, geVars, gsVars, rVars, hVars>>

InitKernel == \E c \in KernelPoints : kernel = AtTests(c[1], c[2])

NextKernel ==
  \/ InteriorTests
  \/ LoopPass
  \/ LoopExit

\* ------------------------------------------------------------ kernel properties
\* One of the two interior tests holds at the pixel's point.
InteriorPoint(real, imag) == inMainCardioid(real, imag) \/ inPeriod2Bulb(real, imag)

\* C22: a pixel whose point passes the cardioid test or the bulb test gets
\* MAX_ITERATIONS without a single pass of the loop; any other pixel gets its
\* count from the loop, one per pass, and the point (2, 2) gets at most 2.
C22_InteriorTestsDecideWithoutLoop ==
  kernel.pc = "done" =>
    /\ InteriorPoint(kernel.real, kernel.imag) =>
         kernel.iter = MAX_ITERATIONS /\ kernel.passes = 0
    /\ ~InteriorPoint(kernel.real, kernel.imag) => kernel.iter = kernel.passes
    /\ (kernel.real = 2 /\ kernel.imag = 2) => kernel.iter <= 2

\* The pixel at c = 0, inside the cardioid, has its count.
C22_Witness ==
  /\ kernel.pc = "done"
  /\ kernel.real = 0 /\ kernel.imag = 0
  /\ inMainCardioid(kernel.real, kernel.imag)
  /\ kernel.iter = MAX_ITERATIONS
  /\ kernel.passes = 0

\* C23: the loop makes at most MAX_ITERATIONS passes, it is over at the first
\* test with |z|^2 >= 4, and the count is in 0 .. MAX_ITERATIONS (the count
\* IterationCount gives for the point).
C23_LoopBounded ==
  /\ [](/\ kernel.passes <= MAX_ITERATIONS
        /\ kernel.iter \in 0..MAX_ITERATIONS
        /\ kernel.pc = "done" =>
             kernel.iter = IterationCount(kernel.real, kernel.imag))
  /\ [][(kernel.pc = "loop" /\ kernel.zr * kernel.zr + kernel.zi * kernel.zi >= 4) =>
         (kernel'.pc = "done" /\ kernel'.iter = kernel.iter)]_vars

\* A loop that was ended by the cap: MAX_ITERATIONS passes with |z|^2 < 4.
C23_Witness ==
  /\ kernel.pc = "done"
  /\ ~InteriorPoint(kernel.real, kernel.imag)
  /\ kernel.passes = MAX_ITERATIONS
  /\ kernel.iter = MAX_ITERATIONS
  /\ kernel.zr * kernel.zr + kernel.zi * kernel.zi < 4

\* ------------------------------------------------------ the frame on the canvas
\* The pixel (x, y) of the canvas.
Pixel(x, y) == surface.pixels[1][y * surface.width + x]

\* The pixels of a request.
PixelsOf(m) == (0..(m.width - 1)) \X (0..(m.height - 1))

\* C16: every non-interior pixel of a rendered frame is the colour of
\* interpolateGradientStops over the stop list carried by the request, at
\* t = (iter / MAX_ITERATIONS) ^ powerFactor.
C16_PixelsResolvedOverStopList ==
  lastApplied # None =>
    LET m == lastApplied[1]
    IN  /\ "gradient" \in DOMAIN m
        /\ \A p \in PixelsOf(m) :
             Iter(m, p[1], p[2]) < MAX_ITERATIONS =>
               Pixel(p[1], p[2]) =
                 Opaque(interpolateGradientStops(
                          m.gradient, Pow(Iter(m, p[1], p[2]), m.powerFactor)).color[1])

\* C17: every pixel of a rendered frame whose count is MAX_ITERATIONS is opaque
\* black, whichever rule gave the count and whatever the colours and the
\* powerFactor of the request.
C17_InteriorIsOpaqueBlack ==
  lastApplied # None =>
    \A p \in PixelsOf(lastApplied[1]) :
      Iter(lastApplied[1], p[1], p[2]) = MAX_ITERATIONS => Pixel(p[1], p[2]) = <<0, 0, 0, 255>>

\* A frame with an end colour other than black that has a pixel in the
\* cardioid, a pixel in the bulb and a pixel whose loop ran MAX_ITERATIONS
\* passes.
C17_Witness ==
  /\ lastApplied # None
  /\ lastApplied[1].endColor # 0
  /\ IsFinite(lastApplied[1].center.x) /\ IsFinite(lastApplied[1].center.y)
  /\ \E p \in PixelsOf(lastApplied[1]) :
       inMainCardioid(Real(lastApplied[1], p[1]), Imag(lastApplied[1], p[2]))
  /\ \E p \in PixelsOf(lastApplied[1]) :
       inPeriod2Bulb(Real(lastApplied[1], p[1]), Imag(lastApplied[1], p[2]))
  /\ \E p \in PixelsOf(lastApplied[1]) :
       EscapeLoop(Real(lastApplied[1], p[1]), Imag(lastApplied[1], p[2])) = MAX_ITERATIONS
  /\ \A p \in PixelsOf(lastApplied[1]) :
       Iter(lastApplied[1], p[1], p[2]) = MAX_ITERATIONS => Pixel(p[1], p[2]) = <<0, 0, 0, 255>>

\* zoom > 0 and finite, centre finite.
ValidViewport(v) ==
  /\ IsFinite(v.zoom) /\ v.zoom.num > 0
  /\ IsFinite(v.center.x) /\ IsFinite(v.center.y)

\* C18: the viewer's zoom and centre are always a valid viewport, and so is
\* every request it has built: an invalid entry leaves zoom and centre as
\* they were.
C18_NoInvalidViewport ==
  /\ ValidViewport(view)
  /\ lastPosted # None => ValidViewport(lastPosted[1])
  /\ \A i \in RenderMessages(inbox) : ValidViewport(inbox[i])

\* C19: a request the worker could not serve, because it holds no canvas or
\* because getContext gave null, has been reported to the caller.
C19_StructuralErrorsSurfaced == outcome.kind = "dropped" => outcome.reported

\* The canvas after render(m) in a worker that has rendered nothing before.
FirstRender(m) ==
  putImageData(m.width, m.height, FillPixels(ZeroData(m.width, m.height), m))

\* C20: the frame on the canvas is the frame a first render of its request
\* gives, whatever the worker rendered before.
C20_FrameDependsOnRequestOnly ==
  lastApplied # None => surface = FirstRender(lastApplied[1])

\* The latest render replaced a frame of another size.
C20_Witness ==
  /\ lastApplied # None
  /\ previous # None
  /\ previous[1] # <<lastApplied[1].width, lastApplied[1].height>>
  /\ surface = FirstRender(lastApplied[1])

\* C26: a resize event for which getDimensions gives the current dimensions
\* updates no state: the effect does not call postRender, so no render
\* request follows from it.
C26_EqualResizeIsNoUpdate ==
  [][\A d \in Dimensions :
       (onResize(d) /\ d = view.dimensions) => pending' = pending]_vars

\* ---------------------------------------------------------------- specification
InitPipe ==
  /\ viewer = "created"
  /\ state = InitialState
  /\ nChanges = 0
  /\ now = Epoch
  /\ db = FreshDebounce
  /\ transferred = FALSE
  /\ workerAlive = FALSE
  /\ inbox = <<>>
  /\ offscreenCanvas = FALSE
  /\ active = {}
  /\ surface = Blank(0, 0)
  /\ lastChangeAt = None
  /\ nPosted = 0
  /\ lastPosted = None
  /\ lastApplied = None
  /\ burstStart = None
  /\ burstPosts = 0

\* No pixel is being computed and interpolateHue has not been called.
InitPure ==
  /\ kernel = KernelIdle
  /\ hueCall = [h1 |-> 0, h2 |-> 0, t |-> Frac(0, 1), result |-> None]

\* The messages another client may send to the worker, and the orders it may
\* send them in.
MaxMessages == 3
ClientMessages ==
  {CanvasMessage, RenderRequest(InitialState),
   RenderRequest([InitialState EXCEPT !.zoom = 1])}
ClientInboxes == UNION {[1..n -> ClientMessages] : n \in 1..MaxMessages}

\* worker.ts started by a client other than the viewer, its messages queued.
InitWorkerAlone ==
  /\ viewer = "none"
  /\ state = InitialState
  /\ nChanges = 0
  /\ now = Epoch
  /\ db = FreshDebounce
  /\ transferred = FALSE
  /\ workerAlive = TRUE
  /\ inbox \in ClientInboxes
  /\ offscreenCanvas = FALSE
  /\ active = {}
  /\ surface = Blank(0, 0)
  /\ lastChangeAt = None
  /\ nPosted = 0
  /\ lastPosted = None
  /\ lastApplied = None
  /\ burstStart = None
  /\ burstPosts = 0

\* The viewer, with the editor at its default width.
Init == InitPipe /\ InitGE /\ width = DefaultWidth /\ InitGS /\ InitRender /\ InitPure

\* The editor, at any width.
InitEditor == InitPipe /\ InitGE /\ InitGS /\ InitRender /\ InitPure

\* A call of the gradient engine.
InitEngine ==
  InitPipe /\ InitGE /\ width = DefaultWidth /\ InitCall /\ InitRender /\ InitPure

\* The viewer and the worker on sampled values.
InitValues ==
  InitMounted /\ InitGE /\ width = DefaultWidth /\ InitGS /\ InitRender /\ InitPure

\* One pixel of a render.
InitPixel ==
  /\ InitPipe /\ InitGE /\ width = DefaultWidth /\ InitGS /\ InitRender
  /\ InitKernel /\ hueCall = [h1 |-> 0, h2 |-> 0, t |-> Frac(0, 1), result |-> None]

\* A call of interpolateHue.
InitHueCall ==
  /\ InitPipe /\ InitGE /\ width = DefaultWidth /\ InitGS /\ InitRender
  /\ kernel = KernelIdle /\ InitHue

Next ==
  \/ Mount
  \/ \E h \in DOMAIN Handlers : StateChange(h)
  \/ TimerExpired
  \/ Unmount
  \/ Tick
  \/ OnMessage
  \/ \E m \in active : RenderPut(m)

Spec == Init /\ [][Next]_vars

\* The pipeline, or the worker alone with the messages of another client.
InitAnyClient ==
  /\ InitPipe \/ InitWorkerAlone
  /\ InitGE /\ width = DefaultWidth /\ InitGS /\ InitRender /\ InitPure

SpecAnyClient == InitAnyClient /\ [][Next]_vars

SpecGE == InitEditor /\ [][NextGE]_vars

SpecGS == InitEngine /\ [][NextGS]_vars

SpecRender == InitValues /\ [][NextRender]_vars

SpecKernel == InitPixel /\ [][NextKernel]_vars

SpecHue == InitHueCall /\ [][NextHue]_vars

====
